---- MODULE Spec2Model ----
(***************************************************************************)
(* A model of zyx-sequelize: the tenant model registry and CRUD wrapper    *)
(* (SequelizeModel, src/lib/createLog.js 151-284) and the account          *)
(* security methods of User / UserModel (src/lib/userModel.js).            *)
(*                                                                         *)
(* The module holds three state machines over disjoint variables:          *)
(*   SpecRegistry  SequelizeModel's constructor, run by several callers    *)
(*                 and interleaved with their asynchronous store calls;    *)
(*   SpecStore     create / updateById / deleteById / findByEmail on the   *)
(*                 users table, each split at its awaits;                  *)
(*   Spec          one in-memory User instance, its methods and the clock. *)
(*                                                                         *)
(* JavaScript runs every synchronous block to completion, so an action is  *)
(* the code between two awaits.  An optional value is the empty sequence   *)
(* (null / undefined) or a one-element sequence.                           *)
(***************************************************************************)
EXTENDS Integers, Sequences, FiniteSets, TLC

None == <<>>

Some(x) == <<x>>

(***************************************************************************)
(* Bounds of the model.                                                    *)
(***************************************************************************)
NumCallers == 2

MaxDefines == 3

\* The clock advances in steps of ClockStepMs, MaxTicks times at most.
ClockStepMs == 300000

MaxTicks == 4

\* incrementLoginAttempts is called while the counter is below MaxAttempts.
MaxAttempts == 6

\* Math.random() gives k / RandRes for a k in 0 .. RandRes - 1.
RandRes == 900

\* The users table holds the rows with primary keys 1 .. MaxRows.
MaxRows == 2

\* A logger holds MaxTransports transports at most.
MaxTransports == 2

Callers == 1..NumCallers

VARIABLES
  \* ---- registry (tenant.db of one tenant, and its callers)
  models,      \* tenant.db.models: model name -> None or Some(definition)
  defineLog,   \* the definitions tenant.db.define has created, in order
  inst,        \* per caller: the outcome of its last new SequelizeModel(tenant)
  rpc,         \* per caller: "idle", or "awaiting" a store call's promise
  \* ---- one User instance in memory, and the clock
  user,        \* the instance's fields
  now,         \* Date.now(), in ms since the start of the run
  last,        \* the step taken last: the method called and what it returned
  sentVerify,  \* what generateVerifyCode returned last, and when
  sentReset,   \* what generateResetCode returned last, and when
  \* ---- the users table of one tenant, and the callers of the CRUD wrapper
  rows,        \* primary key -> None or Some(row)
  nextId,      \* the next value of the autoincrement primary key
  spc,         \* per caller: "idle", or "updating", "deleting" or "finding"
               \* (between a call's awaits)
  rec,         \* per caller: the record its findById loaded
  args,        \* per caller: the updates its updateById was given
  reply,       \* the step taken last: the call, its phase and its result
  \* ---- teardown: one call of closeDB or closeLog
  td           \* the call, the handle it was given, and how far it has come

regVars == <<models, defineLog, inst, rpc>>

acctVars == <<user, now, last, sentVerify, sentReset>>

storeVars == <<rows, nextId, spc, rec, args, reply>>

closeVars == <<td>>

vars == <<regVars, acctVars, storeVars, closeVars>>

(***************************************************************************)
(* SequelizeModel.constructor                                              *)
(***************************************************************************)
ModelNames == {"User", "Log"}

\* What this.schema() can give: an attribute object, a missing value, a
\* value that is no object, or the base class's schema(), which throws.
SchemaResults ==
  { [typeof |-> "object",    truthy |-> TRUE,  throws |-> FALSE, val |-> "attrsA"],
    [typeof |-> "object",    truthy |-> TRUE,  throws |-> FALSE, val |-> "attrsB"],
    [typeof |-> "object",    truthy |-> FALSE, throws |-> FALSE, val |-> "null"],
    [typeof |-> "undefined", truthy |-> FALSE, throws |-> FALSE, val |-> "undefined"],
    [typeof |-> "string",    truthy |-> TRUE,  throws |-> FALSE, val |-> "text"],
    [typeof |-> "undefined", truthy |-> FALSE, throws |-> TRUE,  val |-> "unimplemented"] }

\* What this.options?.() can give; a falsy result is replaced by {}.
OptionResults ==
  { [truthy |-> TRUE,  val |-> "optsA"],
    [truthy |-> FALSE, val |-> "undefined"] }

\* const options = this.options?.() || {};
OptionsOrDefault(o) == IF o.truthy THEN o.val ELSE "{}"

\* if (!attributes || typeof attributes !== "object") throw ...
\* (schema() of the base class throws before the test is reached)
SchemaRejectedOnlyMissing(a) == a.throws \/ ~a.truthy

SchemaRejected(a) == a.throws \/ ~a.truthy \/ a.typeof # "object"

\* tenant.db.models[modelName], as the constructor reads it
RegistryLookupMissing(ms, n) == None

RegistryLookup(ms, n) == ms[n]

\* The else branch is taken when the lookup is falsy.
MustDefineOnChange(ms, n, a, o) ==
  \/ RegistryLookup(ms, n) = None
  \/ RegistryLookup(ms, n)[1].attributes # a.val
  \/ RegistryLookup(ms, n)[1].options # OptionsOrDefault(o)

MustDefine(ms, n, a, o) == RegistryLookup(ms, n) = None

\* tenant.db.define(modelName, attributes, options): Sequelize builds a new
\* model class, registers it under the name (replacing one of that name)
\* and returns it.
NewDefinition(log, n, a, o) ==
  [id |-> Len(log) + 1, name |-> n, attributes |-> a.val,
   options |-> OptionsOrDefault(o)]

Define(ms, d) == [ms EXCEPT ![d.name] = Some(d)]

\* The outcome of one construction, as its caller sees it: the exception,
\* or the instance and its #underlyingModel.
Threw(n, a) ==
  [name |-> n, schema |-> a, threw |-> TRUE, underlyingModel |-> None]

Instance(n, a, d) ==
  [name |-> n, schema |-> a, threw |-> FALSE, underlyingModel |-> Some(d)]

\* new SequelizeModel(tenant) by caller c, with this.name = n, schema()
\* giving a and options() giving o.  The constructor has no await.
Construct(c, n, a, o) ==
  /\ rpc[c] = "idle"
  /\ IF SchemaRejected(a)
       THEN /\ inst' = [inst EXCEPT ![c] = Some(Threw(n, a))]
            /\ UNCHANGED <<models, defineLog>>
       ELSE IF MustDefine(models, n, a, o)
         THEN LET d == NewDefinition(defineLog, n, a, o) IN
              /\ Len(defineLog) < MaxDefines
              /\ defineLog' = Append(defineLog, d)
              /\ models' = Define(models, d)
              /\ inst' = [inst EXCEPT ![c] = Some(Instance(n, a, d))]
         ELSE /\ inst' = [inst EXCEPT ![c] =
                            Some(Instance(n, a, RegistryLookup(models, n)[1]))]
              /\ UNCHANGED <<models, defineLog>>
  /\ UNCHANGED <<rpc, acctVars, storeVars, closeVars>>

\* Whether caller c holds an instance (its last construction did not throw).
HoldsInstance(c) == inst[c] # None /\ ~inst[c][1].threw

\* findById(id): return this.#underlyingModel.findByPk(id); the caller
\* awaits the promise, and other callers run meanwhile.
FindByIdCall(c) ==
  /\ rpc[c] = "idle"
  /\ HoldsInstance(c)
  /\ rpc' = [rpc EXCEPT ![c] = "awaiting"]
  /\ UNCHANGED <<models, defineLog, inst, acctVars, storeVars, closeVars>>

FindByIdSettle(c) ==
  /\ rpc[c] = "awaiting"
  /\ rpc' = [rpc EXCEPT ![c] = "idle"]
  /\ UNCHANGED <<models, defineLog, inst, acctVars, storeVars, closeVars>>

InitRegistry ==
  /\ models = [n \in ModelNames |-> None]
  /\ defineLog = <<>>
  /\ inst = [c \in Callers |-> None]
  /\ rpc = [c \in Callers |-> "idle"]

NextRegistry ==
  \/ \E c \in Callers, n \in ModelNames, a \in SchemaResults, o \in OptionResults :
       Construct(c, n, a, o)
  \/ \E c \in Callers : FindByIdCall(c)
  \/ \E c \in Callers : FindByIdSettle(c)

(***************************************************************************)
(* User: the account's security methods (src/lib/userModel.js 10-62)       *)
(***************************************************************************)
CODE_EXPIRATION_MINUTES == 15

MAX_FAILED_ATTEMPTS == 5

ACCOUNT_LOCK_DURATION_MS == 15 * 60 * 1000

\* The decimal digits of a natural number, as Number.prototype.toString
\* writes them.
DigitChar(d) ==
  CASE d = 0 -> "0" [] d = 1 -> "1" [] d = 2 -> "2" [] d = 3 -> "3" [] d = 4 -> "4"
    [] d = 5 -> "5" [] d = 6 -> "6" [] d = 7 -> "7" [] d = 8 -> "8" [] d = 9 -> "9"

RECURSIVE NumToString(_)
NumToString(n) ==
  IF n < 10 THEN <<DigitChar(n)>>
            ELSE NumToString(n \div 10) \o <<DigitChar(n % 10)>>

\* Math.floor(100 + Math.random() * 900), the draw being k / RandRes
CodePartFromZero(k) == (k * 1000) \div RandRes

CodePart(k) == 100 + (k * 900) \div RandRes

\* generateCode(), with the two draws k1 and k2
generateCode(k1, k2) ==
  NumToString(CodePart(k1)) \o <<"-">> \o NumToString(CodePart(k2))

\* The pairs of draws the model takes: the least and the greatest draw,
\* in both orders.
RandomDraws == {<<0, RandRes - 1>>, <<RandRes - 1, 0>>}

\* Every draw of one part, paired with the least and the greatest draw of
\* the other part (each part is computed from its own draw).
AllDraws ==
  {<<k, e>> : k \in 0..(RandRes - 1), e \in {0, RandRes - 1}}
    \cup {<<e, k>> : k \in 0..(RandRes - 1), e \in {0, RandRes - 1}}

\* The pattern /^\d{3}-\d{3}$/ of the verifyCode and resetCode attributes
IsDigit(ch) == ch \in {"0", "1", "2", "3", "4", "5", "6", "7", "8", "9"}

DigitValue(ch) == CHOOSE d \in 0..9 : DigitChar(d) = ch

MatchesCodePattern(str) ==
  /\ Len(str) = 7
  /\ \A i \in {1, 2, 3, 5, 6, 7} : IsDigit(str[i])
  /\ str[4] = "-"

\* The number a group of three digits writes, the group starting at i
GroupValue(str, i) ==
  100 * DigitValue(str[i]) + 10 * DigitValue(str[i + 1]) + DigitValue(str[i + 2])

\* isAccountLocked(): this.lockUntil && this.lockUntil > new Date().
\* A falsy lockUntil is returned as it is (null), else the comparison.
IsAccountLockedAtOrAfter(u, t) ==
  IF u.lockUntil = None THEN "null"
  ELSE IF u.lockUntil[1] >= t THEN "true" ELSE "false"

isAccountLocked(u, t) ==
  IF u.lockUntil = None THEN "null"
  ELSE IF u.lockUntil[1] > t THEN "true" ELSE "false"

\* resetLock()
ResetLockKeepsCounter(u) == [u EXCEPT !.lockUntil = None]

ResetLockKeepsLock(u) == [u EXCEPT !.failedLoginAttempts = 0]

resetLock(u) == [u EXCEPT !.failedLoginAttempts = 0, !.lockUntil = None]

\* incrementLoginAttempts()
IncrementLocksAfterThreshold(u, t) ==
  LET n == u.failedLoginAttempts + 1 IN
  IF n > MAX_FAILED_ATTEMPTS
    THEN [u EXCEPT !.failedLoginAttempts = n,
                   !.lockUntil = Some(t + ACCOUNT_LOCK_DURATION_MS)]
    ELSE [u EXCEPT !.failedLoginAttempts = n]

IncrementResetsCounterOnLock(u, t) ==
  LET n == u.failedLoginAttempts + 1 IN
  IF n >= MAX_FAILED_ATTEMPTS
    THEN [u EXCEPT !.failedLoginAttempts = 0,
                   !.lockUntil = Some(t + ACCOUNT_LOCK_DURATION_MS)]
    ELSE [u EXCEPT !.failedLoginAttempts = n]

IncrementLocksOnlyAtThreshold(u, t) ==
  LET n == u.failedLoginAttempts + 1 IN
  IF n = MAX_FAILED_ATTEMPTS
    THEN [u EXCEPT !.failedLoginAttempts = n,
                   !.lockUntil = Some(t + ACCOUNT_LOCK_DURATION_MS)]
    ELSE [u EXCEPT !.failedLoginAttempts = n]

incrementLoginAttempts(u, t) ==
  LET n == u.failedLoginAttempts + 1 IN
  IF n >= MAX_FAILED_ATTEMPTS
    THEN [u EXCEPT !.failedLoginAttempts = n,
                   !.lockUntil = Some(t + ACCOUNT_LOCK_DURATION_MS)]
    ELSE [u EXCEPT !.failedLoginAttempts = n]

\* new Date(Date.now() + CODE_EXPIRATION_MINUTES * 60 * 1000)
CodeExpiryInSeconds(t) == t + CODE_EXPIRATION_MINUTES * 1000 * 1000

CodeExpiry(t) == t + CODE_EXPIRATION_MINUTES * 60 * 1000

\* generateVerifyCode() and generateResetCode(), given the code drawn
GenerateVerifyCodeClearsReset(u, code, t) ==
  [u EXCEPT !.verifyCode = Some(code), !.verifyCodeExpiresAt = Some(CodeExpiry(t)),
            !.resetCode = None, !.resetCodeExpiresAt = None]

generateVerifyCode(u, code, t) ==
  [u EXCEPT !.verifyCode = Some(code), !.verifyCodeExpiresAt = Some(CodeExpiry(t))]

generateResetCode(u, code, t) ==
  [u EXCEPT !.resetCode = Some(code), !.resetCodeExpiresAt = Some(CodeExpiry(t))]

\* Validation of a presented verification code.  The repository has no
\* such operation; this is the rule its specification states: the stored
\* code equals the presented one and the expiry is still in the future.
validateVerifyCode(u, presented, t) ==
  /\ u.verifyCode = Some(presented)
  /\ u.verifyCodeExpiresAt # None
  /\ t < u.verifyCodeExpiresAt[1]

\* An account as the store's defaults leave it (failedLoginAttempts
\* defaults to 0, the other fields to null).
FreshAccount ==
  [failedLoginAttempts |-> 0, lockUntil |-> None,
   verifyCode |-> None, verifyCodeExpiresAt |-> None,
   resetCode |-> None, resetCodeExpiresAt |-> None]

\* The instants of the model's clock.
Instants == {k * ClockStepMs : k \in 0..MaxTicks}

\* The accounts a run may start from: a row holds whatever counter and
\* lock time create or updateById wrote.
StartAccounts ==
  {[FreshAccount EXCEPT !.failedLoginAttempts = n, !.lockUntil = l] :
     n \in 0..MaxAttempts, l \in {None} \cup {Some(t) : t \in Instants}}

Step(op, ret) == [op |-> op, ret |-> ret]

IsAccountLockedCall ==
  /\ last' = Step("isAccountLocked", isAccountLocked(user, now))
  /\ UNCHANGED <<user, now, sentVerify, sentReset, regVars, storeVars, closeVars>>

ResetLockCall ==
  /\ user' = resetLock(user)
  /\ last' = Step("resetLock", "undefined")
  /\ UNCHANGED <<now, sentVerify, sentReset, regVars, storeVars, closeVars>>

IncrementLoginAttemptsCall ==
  /\ user.failedLoginAttempts < MaxAttempts
  /\ user' = incrementLoginAttempts(user, now)
  /\ last' = Step("incrementLoginAttempts", "undefined")
  /\ UNCHANGED <<now, sentVerify, sentReset, regVars, storeVars, closeVars>>

GenerateVerifyCodeCall(k1, k2) ==
  /\ user' = generateVerifyCode(user, generateCode(k1, k2), now)
  /\ sentVerify' = Some([code |-> generateCode(k1, k2), at |-> now])
  /\ last' = Step("generateVerifyCode", "code")
  /\ UNCHANGED <<now, sentReset, regVars, storeVars, closeVars>>

GenerateResetCodeCall(k1, k2) ==
  /\ user' = generateResetCode(user, generateCode(k1, k2), now)
  /\ sentReset' = Some([code |-> generateCode(k1, k2), at |-> now])
  /\ last' = Step("generateResetCode", "code")
  /\ UNCHANGED <<now, sentVerify, regVars, storeVars, closeVars>>

\* Time passes between two calls.
Tick ==
  /\ now + ClockStepMs <= MaxTicks * ClockStepMs
  /\ now' = now + ClockStepMs
  /\ last' = Step("tick", "undefined")
  /\ UNCHANGED <<user, sentVerify, sentReset, regVars, storeVars, closeVars>>

\* A field of the values updateById is given: absent, or given as null or
\* as a value.
Absent == [given |-> FALSE, val |-> None]

Given(v) == [given |-> TRUE, val |-> v]

\* record.set: a field given takes the value given.
SetField(old, upd) == IF upd.given THEN upd.val ELSE old

\* The codes a caller writes through the store: one of the pattern, one not.
SuppliedCodes ==
  { <<"1", "2", "3", "-", "4", "5", "6">>, <<"1", "2", "-", "3", "4", "5", "6">> }

CodeUpdates == {Absent, Given(None)} \cup {Given(Some(c)) : c \in SuppliedCodes}

ExpiryUpdates(t) == {Absent, Given(None), Given(Some(CodeExpiry(t)))}

\* validate: { is: /^\d{3}-\d{3}$/ }; validators do not run on null.
CodeValid(v) == v = None \/ MatchesCodePattern(v[1])

\* updateById(id, updates) on the account's row, the updates naming the
\* code and the expiry of one flow: the values are set and validated and,
\* when valid, saved.  user is the row as the last successful save left it.
UpdateCodeFieldsCall(flow, code, expiry) ==
  LET u == IF flow = "verify"
             THEN [user EXCEPT !.verifyCode = SetField(@, code),
                               !.verifyCodeExpiresAt = SetField(@, expiry)]
             ELSE [user EXCEPT !.resetCode = SetField(@, code),
                               !.resetCodeExpiresAt = SetField(@, expiry)] IN
  /\ IF CodeValid(u.verifyCode) /\ CodeValid(u.resetCode)
       THEN /\ user' = u
            /\ last' = Step("updateById", "record")
       ELSE /\ UNCHANGED user
            /\ last' = Step("updateById", "threw")
  /\ UNCHANGED <<now, sentVerify, sentReset, regVars, storeVars, closeVars>>

InitClock ==
  /\ now = 0
  /\ last = Step("start", "undefined")
  /\ sentVerify = None
  /\ sentReset = None

Next ==
  \/ IsAccountLockedCall
  \/ ResetLockCall
  \/ IncrementLoginAttemptsCall
  \/ \E k \in RandomDraws : GenerateVerifyCodeCall(k[1], k[2])
  \/ \E k \in RandomDraws : GenerateResetCodeCall(k[1], k[2])
  \/ Tick

(***************************************************************************)
(* The users table: User.init's attributes and hook (userModel.js 64-150), *)
(* the CRUD wrapper (createLog.js 252-283) and findByEmail (158-168).      *)
(***************************************************************************)
SALT_ROUNDS == 12

\* The callers of the CRUD wrapper: two, whose calls interleave at awaits.
Writers == {"w1", "w2"}

UpperCase == <<"A", "B", "C", "D", "E", "F", "G", "H", "I", "J", "K", "L", "M",
               "N", "O", "P", "Q", "R", "S", "T", "U", "V", "W", "X", "Y", "Z">>

LowerCase == <<"a", "b", "c", "d", "e", "f", "g", "h", "i", "j", "k", "l", "m",
               "n", "o", "p", "q", "r", "s", "t", "u", "v", "w", "x", "y", "z">>

WhiteSpace == {" ", "\t", "\n"}

\* String.prototype.toLowerCase, a string being a sequence of characters
LowerChar(ch) ==
  IF \E i \in 1..26 : UpperCase[i] = ch
    THEN LowerCase[CHOOSE i \in 1..26 : UpperCase[i] = ch]
    ELSE ch

toLowerCase(str) == [i \in 1..Len(str) |-> LowerChar(str[i])]

\* String.prototype.trim
RECURSIVE TrimStart(_)
TrimStart(str) ==
  IF str # <<>> /\ Head(str) \in WhiteSpace THEN TrimStart(Tail(str)) ELSE str

RECURSIVE TrimEnd(_)
TrimEnd(str) ==
  IF str # <<>> /\ str[Len(str)] \in WhiteSpace
    THEN TrimEnd(SubSeq(str, 1, Len(str) - 1))
    ELSE str

trim(str) == TrimEnd(TrimStart(str))

\* email.trim().toLowerCase(), the key findByEmail looks up
QueryKey(str) == toLowerCase(trim(str))

\* validate: { isEmail: true }: one "@", a local part and a domain of
\* letters, digits, dots and hyphens, the domain with a dot and a top
\* level of two letters or more.  No white space anywhere.
Letters == {UpperCase[i] : i \in 1..26} \cup {LowerCase[i] : i \in 1..26}

NameChars == Letters \cup {DigitChar(d) : d \in 0..9} \cup {".", "-"}

isEmail(str) ==
  \E i \in 2..(Len(str) - 4) :
    /\ str[i] = "@"
    /\ \A j \in (1..Len(str)) \ {i} : str[j] \in NameChars
    /\ str[i + 1] # "." /\ str[1] # "." /\ str[i - 1] # "."
    /\ \E k \in (i + 2)..(Len(str) - 2) :
         /\ str[k] = "."
         /\ \A j \in (k + 1)..Len(str) : str[j] \in Letters

\* bcrypt.hash(value, salt) with SALT_ROUNDS rounds: the version, the cost
\* and the salt, then the digest, which stands for the value hashed.
\* A credential value is a sequence of pieces, a raw one a single piece.
BcryptHash(value, salt) ==
  <<"$2b$">> \o NumToString(SALT_ROUNDS) \o <<"$", salt>> \o value

HashHeaderLen == Len(BcryptHash(<<>>, "salt"))

IsBcryptHashOf(h, value) ==
  /\ Len(h) = HashHeaderLen + Len(value)
  /\ h[1] = "$2b$"
  /\ SubSeq(h, HashHeaderLen + 1, Len(h)) = value

\* The salts bcrypt.genSalt draws.
Salts == {"saltA"}

\* The raw credentials callers supply.
RawCredentials == {<<"secret">>, <<"hunter2">>}

\* beforeSave: if (user.changed("passwordHash")) hash it with a new salt.
BeforeSaveAlways(changed, value, salt) == BcryptHash(value, salt)

BeforeSave(changed, value, salt) ==
  IF changed THEN BcryptHash(value, salt) ELSE value

\* The email strings callers supply.
EmailLower == <<"a", "@", "b", ".", "c", "o", "m">>

EmailUpper == <<"A", "@", "B", ".", "c", "o", "m">>

EmailPadded == <<" ", "A", "@", "B", ".", "c", "o", "m", " ">>

EmailStrings == {EmailLower, EmailUpper, EmailPadded}

RowIds == 1..MaxRows

\* The rows whose email column equals the key, lowest primary key first:
\* findOne({ where: { email: key } }) on PostgreSQL, which compares
\* strings character for character.
RowsWithEmail(rs, key) == {i \in RowIds : rs[i] # None /\ rs[i][1].email = key}

FindOneByEmail(rs, key) ==
  IF RowsWithEmail(rs, key) = {} THEN None
  ELSE Some(CHOOSE i \in RowsWithEmail(rs, key) :
              \A j \in RowsWithEmail(rs, key) : i <= j)

\* findByEmail(email) for a string: the primary key of the row found.
findByEmail(rs, str) == FindOneByEmail(rs, QueryKey(str))

\* unique: true on email: no other row holds the same string.
EmailTaken(rs, id, email) ==
  \E i \in RowIds \ {id} : rs[i] # None /\ rs[i][1].email = email

\* allowNull: false and isEmail, for the fields a save writes.
RowValid(email, passwordHash) ==
  /\ email # None /\ isEmail(email[1])
  /\ passwordHash # None

\* A result is "pending" while the call awaits its record's save or destroy.
Reply(op, result, id) == [op |-> op, result |-> result, id |-> id]

\* create(data): validation, the beforeSave hook, then the INSERT, which
\* the unique index on email may refuse.
Create(c, email, pw, salt) ==
  /\ spc[c] = "idle"
  /\ IF /\ RowValid(email, pw)
        /\ ~EmailTaken(rows, 0, email[1])
        /\ nextId <= MaxRows
       THEN /\ rows' = [rows EXCEPT ![nextId] =
                 Some([email |-> email[1],
                       passwordHash |-> BeforeSave(TRUE, pw[1], salt)])]
            /\ nextId' = nextId + 1
            /\ reply' = Reply("create", "record", nextId)
       ELSE /\ reply' = Reply("create", "threw", 0)
            /\ UNCHANGED <<rows, nextId>>
  /\ UNCHANGED <<spc, rec, args, regVars, acctVars, closeVars>>

\* if (!record) return null;
NotFoundNever(r) == FALSE

NotFound(r) == r = None

NoUpdates == [email |-> None, passwordHash |-> None]

\* updateById(id, updates), up to its first await: findById(id)
UpdateByIdFind(c, id, updates) ==
  /\ spc[c] = "idle"
  /\ IF NotFound(rows[id])
       THEN /\ reply' = Reply("updateById", "null", id)
            /\ UNCHANGED <<spc, rec, args>>
       ELSE /\ spc' = [spc EXCEPT ![c] = "updating"]
            /\ rec' = [rec EXCEPT ![c] = [id |-> id, row |-> rows[id]]]
            /\ args' = [args EXCEPT ![c] = updates]
            /\ reply' = Reply("updateById", "pending", id)
  /\ UNCHANGED <<rows, nextId, regVars, acctVars, closeVars>>

\* record.update(updates): the values are set, the fields given are
\* validated, the hook runs, and when a value changed the fields given are
\* written to the row with that primary key, if it is still there.
Changed(loaded, given) == given # None /\ given[1] # loaded

WrittenKeepsLoaded(loaded, given) == loaded

Written(loaded, given) == IF given = None THEN loaded ELSE given[1]

UpdateByIdSave(c, salt) ==
  /\ spc[c] = "updating"
  /\ spc' = [spc EXCEPT ![c] = "idle"]
  /\ args' = [args EXCEPT ![c] = NoUpdates]
  /\ rec' = [rec EXCEPT ![c] = [id |-> 0, row |-> None]]
  /\ IF rec[c].row = None
       THEN \* null.update(...) is a TypeError
            /\ reply' = Reply("updateById", "threw", rec[c].id)
            /\ UNCHANGED rows
       ELSE
         LET id == rec[c].id
             loaded == rec[c].row[1]
             given == args[c]
             email == Written(loaded.email, given.email)
             pwSet == Written(loaded.passwordHash, given.passwordHash)
             pwChanged == Changed(loaded.passwordHash, given.passwordHash)
             pw == BeforeSave(pwChanged, pwSet, salt)
             \* a value the hook assigns is marked changed as well
             hookChanged == pw # pwSet
             \* the fields the UPDATE writes: those given, and those the hook changed
             writesEmail == given.email # None
             writesPw == given.passwordHash # None \/ hookChanged
             \* save() sends no query when no value was marked changed
             anyChanged == email # loaded.email \/ pwChanged \/ hookChanged
             current == rows[id][1] IN
         IF \/ ~RowValid(Some(email), Some(pw))
            \/ /\ anyChanged /\ writesEmail /\ rows[id] # None
               /\ EmailTaken(rows, id, email)
           THEN /\ reply' = Reply("updateById", "threw", id)
                /\ UNCHANGED rows
           ELSE /\ reply' = Reply("updateById", "record", id)
                /\ IF anyChanged /\ rows[id] # None
                     THEN rows' = [rows EXCEPT ![id] =
                            Some([email |-> IF writesEmail THEN email
                                            ELSE current.email,
                                  passwordHash |-> IF writesPw THEN pw
                                                   ELSE current.passwordHash])]
                     ELSE UNCHANGED rows
  /\ UNCHANGED <<nextId, regVars, acctVars, closeVars>>

\* deleteById(id), up to its first await: findById(id)
DeleteByIdFind(c, id) ==
  /\ spc[c] = "idle"
  /\ IF NotFound(rows[id])
       THEN /\ reply' = Reply("deleteById", "null", id)
            /\ UNCHANGED <<spc, rec>>
       ELSE /\ spc' = [spc EXCEPT ![c] = "deleting"]
            /\ rec' = [rec EXCEPT ![c] = [id |-> id, row |-> rows[id]]]
            /\ reply' = Reply("deleteById", "pending", id)
  /\ UNCHANGED <<rows, nextId, args, regVars, acctVars, closeVars>>

\* record.destroy()
DeleteByIdDestroy(c) ==
  /\ spc[c] = "deleting"
  /\ spc' = [spc EXCEPT ![c] = "idle"]
  /\ rec' = [rec EXCEPT ![c] = [id |-> 0, row |-> None]]
  /\ IF rec[c].row = None
       THEN /\ reply' = Reply("deleteById", "threw", rec[c].id)
            /\ UNCHANGED rows
       ELSE /\ reply' = Reply("deleteById", "record", rec[c].id)
            /\ rows' = [rows EXCEPT ![rec[c].id] = None]
  /\ UNCHANGED <<nextId, args, regVars, acctVars, closeVars>>

\* findByEmail(email): a value that is no string throws before the query.
FindByEmailCall(c, isString, str) ==
  /\ spc[c] = "idle"
  /\ reply' =
       IF ~isString THEN Reply("findByEmail", "threw", 0)
       ELSE IF findByEmail(rows, str) = None
         THEN Reply("findByEmail", "null", 0)
         ELSE Reply("findByEmail", "record", findByEmail(rows, str)[1])
  /\ UNCHANGED <<rows, nextId, spc, rec, args, regVars, acctVars, closeVars>>

\* The values findByEmail is called with: strings, and values that are not.
LookupInputs ==
  {[typeof |-> "string", str |-> e] : e \in EmailStrings}
    \cup {[typeof |-> t, str |-> <<>>] : t \in {"number", "undefined", "object"}}

\* typeof email !== "string" is what findByEmail throws on.
IsStringAlways(v) == TRUE

IsString(v) == v.typeof = "string"

\* findByEmail(email), up to the promise it returns: the type test, then
\* the findOne query is issued with the key looked up.
FindByEmailStart(c, v) ==
  /\ spc[c] = "idle"
  /\ IF ~IsString(v)
       THEN /\ reply' = Reply("findByEmail", "threw", 0)
            /\ UNCHANGED <<spc, args>>
       ELSE /\ spc' = [spc EXCEPT ![c] = "finding"]
            /\ args' = [args EXCEPT ![c] =
                          [email |-> Some(QueryKey(v.str)), passwordHash |-> None]]
            /\ reply' = Reply("findByEmail", "pending", 0)
  /\ UNCHANGED <<rows, nextId, rec, regVars, acctVars, closeVars>>

\* The findOne query settles with the row of that email, or null.
FindOneSettle(c) ==
  /\ spc[c] = "finding"
  /\ spc' = [spc EXCEPT ![c] = "idle"]
  /\ args' = [args EXCEPT ![c] = NoUpdates]
  /\ reply' =
       IF FindOneByEmail(rows, args[c].email[1]) = None
         THEN Reply("findByEmail", "null", 0)
         ELSE Reply("findByEmail", "record", FindOneByEmail(rows, args[c].email[1])[1])
  /\ UNCHANGED <<rows, nextId, rec, regVars, acctVars, closeVars>>

\* create is given a raw credential or none; updateById a raw credential,
\* none, or the hash the row holds (a record read before and saved again).
NewCredentials == {None} \cup {Some(v) : v \in RawCredentials}

HashOfRow(id) == IF rows[id] = None THEN {} ELSE {Some(rows[id][1].passwordHash)}

\* The values callers pass as a row's email and passwordHash.
EmailValues == {None} \cup {Some(e) : e \in EmailStrings}

\* The updates updateById is given for the row id: one field, or none.
UpdatesFor(id) ==
  {[email |-> e, passwordHash |-> None] : e \in EmailValues}
    \cup {[email |-> None, passwordHash |-> p] : p \in NewCredentials \cup HashOfRow(id)}

InitStore ==
  /\ rows = [i \in RowIds |-> None]
  /\ nextId = 1
  /\ spc = [c \in Writers |-> "idle"]
  /\ rec = [c \in Writers |-> [id |-> 0, row |-> None]]
  /\ args = [c \in Writers |-> NoUpdates]
  /\ reply = Reply("start", "null", 0)

NextStore ==
  \/ \E c \in Writers, e \in EmailValues, p \in NewCredentials, s \in Salts :
       Create(c, e, p, s)
  \/ \E c \in Writers, id \in RowIds :
       \E u \in UpdatesFor(id) : UpdateByIdFind(c, id, u)
  \/ \E c \in Writers, s \in Salts : UpdateByIdSave(c, s)
  \/ \E c \in Writers, id \in RowIds : DeleteByIdFind(c, id)
  \/ \E c \in Writers : DeleteByIdDestroy(c)
  \/ \E c \in Writers, e \in EmailStrings : FindByEmailCall(c, TRUE, e)
  \/ \E c \in Writers : FindByEmailCall(c, FALSE, <<>>)

(***************************************************************************)
(* Teardown: closeDB (src/lib/closeDB.js) and closeLog.                    *)
(***************************************************************************)
\* What closeDB is given: null, an object without a close function, or a
\* Sequelize instance whose close() resolves, rejects or throws.
DbHandles ==
  {[kind |-> k, close |-> "none", transports |-> <<>>] : k \in {"null", "noClose"}}
    \cup {[kind |-> "sequelize", close |-> c, transports |-> <<>>] :
            c \in {"resolves", "rejects", "throws"}}

\* A transport: its close(callback), if it has one, calls back without or
\* with an error, or throws; its LogModel.sequelize, if it has one, has a
\* close() that resolves or rejects.
Transports ==
  [close : {"none", "ok", "error", "throws"},
   sequelize : {"none", "resolves", "rejects"}]

TransportLists ==
  UNION {[1..n -> Transports] : n \in 0..MaxTransports}

\* What closeLog is given: null, an object without a close function, an
\* object with a close function and no transports, or a logger.
LogHandles ==
  {[kind |-> k, close |-> "none", transports |-> <<>>] :
     k \in {"null", "noClose", "noTransports"}}
    \cup {[kind |-> "logger", close |-> "none", transports |-> ts] :
            ts \in TransportLists}

\* if (!handle || typeof handle.close !== "function")
InvalidHandle(h) == h.kind \in {"null", "noClose"}

\* The promises closeLog's loop collects for one transport: one that the
\* transport's close callback settles (a throw in the executor rejects
\* it), then the one its sequelize.close() returns.
PromisesOf(t) ==
  (IF t.close = "none" THEN <<>>
   ELSE IF t.close = "ok" THEN <<"resolved">> ELSE <<"rejected">>)
  \o (IF t.sequelize = "none" THEN <<>>
      ELSE IF t.sequelize = "resolves" THEN <<"resolved">> ELSE <<"rejected">>)

RECURSIVE ClosePromises(_)
ClosePromises(ts) ==
  IF ts = <<>> THEN <<>> ELSE PromisesOf(Head(ts)) \o ClosePromises(Tail(ts))

\* await Promise.all(closePromises) rejects when one of them rejects.
AnyRejected(ps) == \E i \in 1..Len(ps) : ps[i] = "rejected"

\* try { ...; log.info } catch (err) { log.error }: what is logged and how
\* the call ends, given whether the try block failed.
TryWithoutCatch(failed) ==
  IF failed THEN [log |-> "none", outcome |-> "threw"]
            ELSE [log |-> "info", outcome |-> "returned"]

TryCatch(failed) ==
  IF failed THEN [log |-> "error", outcome |-> "returned"]
            ELSE [log |-> "info", outcome |-> "returned"]

NoTeardown ==
  [op |-> "none", phase |-> "idle",
   handle |-> [kind |-> "null", close |-> "none", transports |-> <<>>],
   promises |-> <<>>, closeCalls |-> 0, log |-> "none", outcome |-> "none"]

\* The call has ended: with the warning, or through the try block.
Ended(op, h, calls, result) ==
  [op |-> op, phase |-> "done", handle |-> h, promises |-> <<>>,
   closeCalls |-> calls, log |-> result.log, outcome |-> result.outcome]

\* The call awaits the promises ps of the close calls it made.
Awaiting(op, h, ps) ==
  [op |-> op, phase |-> "awaiting", handle |-> h, promises |-> ps,
   closeCalls |-> Len(ps), log |-> "none", outcome |-> "pending"]

\* closeDB(sequelizeInstance), up to its await
CloseDBCall(h) ==
  /\ td.phase = "idle"
  /\ td' = IF InvalidHandle(h)
             THEN Ended("closeDB", h, 0, [log |-> "warn", outcome |-> "returned"])
           ELSE IF h.close = "throws"
             THEN Ended("closeDB", h, 1, TryCatch(TRUE))
           ELSE Awaiting("closeDB", h,
                         <<IF h.close = "resolves" THEN "resolved" ELSE "rejected">>)
  /\ UNCHANGED <<regVars, acctVars, storeVars>>

\* closeLog(logger), up to its await; iterating transports that are
\* missing throws inside the try block.
CloseLogCall(h) ==
  /\ td.phase = "idle"
  /\ td' = IF InvalidHandle(h)
             THEN Ended("closeLog", h, 0, [log |-> "warn", outcome |-> "returned"])
           ELSE IF h.kind = "noTransports"
             THEN Ended("closeLog", h, 0, TryCatch(TRUE))
           ELSE Awaiting("closeLog", h, ClosePromises(h.transports))
  /\ UNCHANGED <<regVars, acctVars, storeVars>>

\* The awaited promise settles; the rest of the try block, or the catch.
CloseSettle ==
  /\ td.phase = "awaiting"
  /\ td' = Ended(td.op, td.handle, td.closeCalls, TryCatch(AnyRejected(td.promises)))
  /\ UNCHANGED <<regVars, acctVars, storeVars>>

InitTeardown == td = NoTeardown

NextTeardown ==
  \/ \E h \in DbHandles : CloseDBCall(h)
  \/ \E h \in LogHandles : CloseLogCall(h)
  \/ CloseSettle

\* A fresh account, and an empty registry.
Init ==
  InitRegistry /\ InitStore /\ InitClock /\ InitTeardown /\ user = FreshAccount

\* Any account a row can hold.
InitAnyAccount ==
  InitRegistry /\ InitStore /\ InitClock /\ InitTeardown /\ user \in StartAccounts

Spec == InitAnyAccount /\ [][Next]_vars

SpecFresh == Init /\ [][Next]_vars

SpecStore == Init /\ [][NextStore]_vars

SpecRegistry == Init /\ [][NextRegistry]_vars

\* Lookups by email, split at the query, among creates.
NextLookup ==
  \/ \E c \in Writers, e \in EmailValues, p \in NewCredentials, s \in Salts :
       Create(c, e, p, s)
  \/ \E c \in Writers, v \in LookupInputs : FindByEmailStart(c, v)
  \/ \E c \in Writers : FindOneSettle(c)

SpecLookup == Init /\ [][NextLookup]_vars

SpecTeardown == Init /\ [][NextTeardown]_vars

\* The account's code fields, written by the instance methods and through
\* the store.
NextAccountStore ==
  \/ \E k \in RandomDraws : GenerateVerifyCodeCall(k[1], k[2])
  \/ \E k \in RandomDraws : GenerateResetCodeCall(k[1], k[2])
  \/ \E f \in {"verify", "reset"}, c \in CodeUpdates, e \in ExpiryUpdates(now) :
       UpdateCodeFieldsCall(f, c, e)
  \/ Tick

SpecAccountStore == Init /\ [][NextAccountStore]_vars

\* generateCode over every draw, through the first generateVerifyCode of a
\* run (the code drawn does not depend on the account).
NextCodes ==
  \E k \in AllDraws : sentVerify = None /\ GenerateVerifyCodeCall(k[1], k[2])

SpecCodes == Init /\ [][NextCodes]_vars

(***************************************************************************)
(* Claims about the registry, checked under SpecRegistry.                  *)
(***************************************************************************)
\* The positions in the define log of the definitions named n.
DefinesOfName(log, n) == {i \in 1..Len(log) : log[i].name = n}

\* The definition registered first under the name n.
FirstDefined(log, n) ==
  log[CHOOSE i \in DefinesOfName(log, n) : \A j \in DefinesOfName(log, n) : i <= j]

\* C1: a construction with a valid schema raises no error, its model name
\* is defined exactly once however many constructions used it, and its
\* underlyingModel is the definition registered first under that name,
\* whatever attributes and options the construction supplied.
C1_SameNameDefinedOnce ==
  \A c \in Callers :
    (inst[c] # None /\ ~SchemaRejected(inst[c][1].schema)) =>
      /\ ~inst[c][1].threw
      /\ Cardinality(DefinesOfName(defineLog, inst[c][1].name)) = 1
      /\ inst[c][1].underlyingModel = Some(FirstDefined(defineLog, inst[c][1].name))

\* C1's case: two callers hold instances of one model name, constructed with
\* different attributes; the later one exposes the first one's definition.
C1_Witness ==
  \E c1, c2 \in Callers :
    /\ HoldsInstance(c1) /\ HoldsInstance(c2)
    /\ inst[c1][1].name = inst[c2][1].name
    /\ inst[c1][1].schema # inst[c2][1].schema
    /\ inst[c1][1].underlyingModel = inst[c2][1].underlyingModel
    /\ inst[c2][1].underlyingModel[1].attributes # inst[c2][1].schema.val

\* The definitions ever registered under n, and those callers observe as
\* the underlyingModel of an instance named n.
RegisteredAs(n) ==
  {defineLog[i] : i \in DefinesOfName(defineLog, n)}
    \cup {models[n][i] : i \in 1..Len(models[n])}

ObservedAs(n) ==
  {inst[c][1].underlyingModel[1] :
     c \in {x \in Callers : HoldsInstance(x) /\ inst[x][1].name = n}}

\* C2: whatever the interleaving of the callers' constructions and awaits,
\* at most one definition is ever registered or observed under a model name.
C2_NoTwoDefinitions ==
  \A n \in ModelNames : Cardinality(RegisteredAs(n) \cup ObservedAs(n)) <= 1

\* C2's case: two callers, each awaiting a store call on the tenant handle,
\* hold instances of one model name constructed with different attributes.
C2_Witness ==
  \E c1, c2 \in Callers :
    /\ c1 # c2
    /\ rpc[c1] = "awaiting" /\ rpc[c2] = "awaiting"
    /\ HoldsInstance(c1) /\ HoldsInstance(c2)
    /\ inst[c1][1].name = inst[c2][1].name
    /\ inst[c1][1].schema # inst[c2][1].schema

(***************************************************************************)
(* Claims about the account's methods.                                     *)
(***************************************************************************)
\* C3: from a fresh account, after 1 to 4 calls of incrementLoginAttempts
\* lockUntil is unset and isAccountLocked is not true (it returns the null
\* lockUntil); the call that makes the counter 5 sets lockUntil to the
\* current time plus 15 minutes and isAccountLocked is true at once; and a
\* locked account stays locked, short of resetLock, while the time is before
\* that lockUntil.  Checked under SpecFresh.
C3_LockOnFifthFailure ==
  [][/\ user'.failedLoginAttempts \in 1..4 =>
          /\ user'.lockUntil = None
          /\ isAccountLocked(user', now') = "null"
     /\ (last'.op = "incrementLoginAttempts" /\ user'.failedLoginAttempts = 5) =>
          /\ user.failedLoginAttempts = 4
          /\ user'.lockUntil = Some(now + 15 * 60 * 1000)
          /\ isAccountLocked(user', now') = "true"
     /\ (/\ isAccountLocked(user, now) = "true"
         /\ last'.op # "resetLock"
         /\ now' < user.lockUntil[1]) =>
          isAccountLocked(user', now') = "true"]_vars

\* C3's case: the fifth call locked the account and, one clock step later,
\* the account is still locked.
C3_Witness ==
  /\ user.failedLoginAttempts = 5
  /\ last.op = "tick"
  /\ user.lockUntil = Some(now - ClockStepMs + 15 * 60 * 1000)
  /\ isAccountLocked(user, now) = "true"

\* C4: in whatever state resetLock is called, it leaves failedLoginAttempts
\* = 0 and lockUntil = null, and isAccountLocked is not true right after.
C4_ResetLockClears ==
  /\ LET r == resetLock(user) IN
       /\ r.failedLoginAttempts = 0
       /\ r.lockUntil = None
       /\ isAccountLocked(r, now) # "true"
  /\ last.op = "resetLock" =>
       /\ user.failedLoginAttempts = 0
       /\ user.lockUntil = None
       /\ isAccountLocked(user, now) # "true"

\* C4's case: resetLock has just been called, after time had passed.
C4_Witness ==
  /\ last.op = "resetLock"
  /\ now > 0
  /\ user.failedLoginAttempts = 0
  /\ user.lockUntil = None

\* C5: a call of isAccountLocked returns true exactly when lockUntil is set
\* and strictly greater than the current time, and changes no field.
C5_IsLockedIsPureRead ==
  [][last'.op = "isAccountLocked" =>
       /\ user' = user
       /\ now' = now
       /\ (last'.ret = "true") <=>
            (user.lockUntil # None /\ user.lockUntil[1] > now)]_vars

\* C5's case: lockUntil lies in the past; the call says unlocked, while
\* lockUntil and the counter keep their old values.
C5_Witness ==
  /\ last.op = "isAccountLocked"
  /\ last.ret = "false"
  /\ user.lockUntil # None
  /\ user.lockUntil[1] < now
  /\ user.failedLoginAttempts >= 5

\* The codes a caller may present: every code the model issues, and each
\* of them with one digit altered.
IssuableCodes == {generateCode(k[1], k[2]) : k \in RandomDraws}

PresentedCodes ==
  IssuableCodes \cup {[c EXCEPT ![i] = "5"] : c \in IssuableCodes, i \in {1, 7}}

\* C7: a presented code validates only if it is, character for character,
\* the code generateVerifyCode returned last and stored, and only before
\* that code's expiry, 15 minutes after it was issued.
C7_ValidatesOnlyExactAndUnexpired ==
  \A p \in PresentedCodes :
    validateVerifyCode(user, p, now) =>
      /\ sentVerify # None
      /\ p = sentVerify[1].code
      /\ user.verifyCode = Some(p)
      /\ now < sentVerify[1].at + 15 * 60 * 1000
      /\ now < user.verifyCodeExpiresAt[1]

\* C7's case: a code was issued, time has passed, and the code still
\* validates while one with a digit altered does not.
C7_Witness ==
  /\ sentVerify # None
  /\ now > sentVerify[1].at
  /\ validateVerifyCode(user, sentVerify[1].code, now)
  /\ ~validateVerifyCode(user, [sentVerify[1].code EXCEPT ![7] = "5"], now)

(***************************************************************************)
(* Claims about the users table, checked under SpecStore.                  *)
(***************************************************************************)
\* A hash of one of the raw credentials, hashed once.
HashedOnce(h) == \E v \in RawCredentials, s \in Salts : h = BcryptHash(v, s)

\* C6: every persisted passwordHash is the hash of a raw credential, never
\* the raw value a caller supplied; a save of updateById hashes the value
\* it is given exactly when that value differs from the one the record
\* was loaded with, and a save that is given no passwordHash, or the hash
\* the record holds, writes no second hash.
C6_HashedOnWriteOnly ==
  [][/\ \A i \in RowIds :
          rows'[i] # None =>
            /\ rows'[i][1].passwordHash \notin RawCredentials
            /\ HashedOnce(rows'[i][1].passwordHash)
     /\ \A c \in Writers :
          (/\ spc[c] = "updating" /\ spc'[c] = "idle"
           /\ reply'.result = "record"
           /\ rows[rec[c].id] # None) =>
            LET loaded == rec[c].row[1].passwordHash
                given == args[c].passwordHash
                before == rows[rec[c].id][1].passwordHash
                after == rows'[rec[c].id][1].passwordHash IN
            /\ given = None => after = before
            /\ (given # None /\ given[1] = loaded) => after \in {before, loaded}
            /\ (given # None /\ given[1] # loaded) =>
                 \E s \in Salts : after = BcryptHash(given[1], s)]_vars

\* C6's case: an updateById has just saved a row whose credential was
\* replaced since the row was created (the second raw credential under the
\* email of another spelling).
C6_Witness ==
  /\ reply.op = "updateById" /\ reply.result = "record"
  /\ rows[1] # None
  /\ rows[1][1].email = EmailUpper
  /\ \E s \in Salts : rows[1][1].passwordHash = BcryptHash(<<"hunter2">>, s)
  /\ rows[2] # None
  /\ rows[2][1].email = EmailLower

\* C8: updateById and deleteById, called with an id that has no row, return
\* null (no error), leave no save or destroy pending and change no row.
C8_MissingIdReturnsNull ==
  [][(/\ reply'.op \in {"updateById", "deleteById"}
      /\ reply'.result \in {"null", "pending"}
      /\ rows[reply'.id] = None) =>
       /\ reply'.result = "null"
       /\ rows' = rows
       /\ spc' = spc /\ rec' = rec /\ args' = args]_vars

\* C8's case: deleteById has just returned null for an id without a row,
\* while the table holds another row and another caller's update is pending.
C8_Witness ==
  /\ reply.op = "deleteById" /\ reply.result = "null"
  /\ rows[reply.id] = None
  /\ \E i \in RowIds : rows[i] # None
  /\ \E c \in Writers : spc[c] = "updating"

\* C9: findByEmail resolves every string that equals an account's email
\* after trimming and lower-casing to that account.
C9_LookupIgnoresCaseAndSpace ==
  \A i \in RowIds :
    rows[i] # None =>
      \A q \in EmailStrings :
        QueryKey(q) = QueryKey(rows[i][1].email) => findByEmail(rows, q) = Some(i)

\* C10: no two accounts have emails that are equal after trimming and
\* lower-casing.
C10_NormalizedEmailsUnique ==
  \A i, j \in RowIds :
    (i # j /\ rows[i] # None /\ rows[j] # None) =>
      QueryKey(rows[i][1].email) # QueryKey(rows[j][1].email)

(***************************************************************************)
(* Claims about generated codes.                                           *)
(***************************************************************************)
\* C11: whatever the two random draws, generateCode returns seven
\* characters ddd-ddd, and each group of digits writes a number from 100
\* to 999.  Checked under SpecCodes on the code generateVerifyCode returns.
C11_CodeIsTwoGroupsOfThreeDigits ==
  sentVerify # None =>
    /\ MatchesCodePattern(sentVerify[1].code)
    /\ GroupValue(sentVerify[1].code, 1) \in 100..999
    /\ GroupValue(sentVerify[1].code, 5) \in 100..999

\* C11's case: the code of the greatest first draw and the least second.
C11_Witness ==
  /\ sentVerify # None
  /\ sentVerify[1].code = <<"9", "9", "9", "-", "1", "0", "0">>

(***************************************************************************)
(* More claims about the registry, checked under SpecRegistry.             *)
(***************************************************************************)
\* C12: a construction whose schema() is the base class's (it throws), or
\* gives null, undefined or a value that is no object, throws and hands
\* out no model; the step of a construction that throws leaves the
\* registry and the definitions made as they were, whether the name was
\* registered or not.
C12_RejectedSchemaRegistersNothing ==
  [][/\ \A c \in Callers :
          (/\ inst'[c] # None
           /\ inst'[c][1].schema.val \in {"unimplemented", "null", "undefined", "text"}) =>
            /\ inst'[c][1].threw
            /\ inst'[c][1].underlyingModel = None
     /\ (\E c \in Callers :
           inst'[c] # inst[c] /\ inst'[c] # None /\ inst'[c][1].threw) =>
          /\ models' = models
          /\ defineLog' = defineLog]_vars

\* C12's case: one caller's construction threw for a name that is
\* registered, another's for a name that is not.
C12_Witness ==
  \E c, d \in Callers :
    /\ inst[c] # None /\ inst[c][1].threw
    /\ inst[c][1].schema.val = "unimplemented"
    /\ models[inst[c][1].name] # None
    /\ inst[d] # None /\ inst[d][1].threw
    /\ inst[d][1].schema.val = "text"
    /\ models[inst[d][1].name] = None

\* C13: a verifyCode that is present matches ddd-ddd and has a
\* verifyCodeExpiresAt that is not null, and the same for resetCode and
\* resetCodeExpiresAt.  Checked under SpecAccountStore.
C13_CodePresentHasPatternAndExpiry ==
  /\ user.verifyCode # None =>
       /\ MatchesCodePattern(user.verifyCode[1])
       /\ user.verifyCodeExpiresAt # None
  /\ user.resetCode # None =>
       /\ MatchesCodePattern(user.resetCode[1])
       /\ user.resetCodeExpiresAt # None

(***************************************************************************)
(* More claims about the account's methods.                                *)
(***************************************************************************)
\* C14: from a fresh account, whatever calls of incrementLoginAttempts,
\* resetLock, generateVerifyCode and generateResetCode are made, a
\* lockUntil that is set comes with a failedLoginAttempts of 5 or more.
\* Checked under SpecFresh.
C14_LockOnlyPastThreshold ==
  user.lockUntil # None => user.failedLoginAttempts >= 5

\* C14's case: the fifth failure after some time has just set the lock.
C14_Witness ==
  /\ last.op = "incrementLoginAttempts"
  /\ user.failedLoginAttempts = 5
  /\ now = 2 * ClockStepMs
  /\ user.lockUntil = Some(now + 15 * 60 * 1000)
  /\ user.verifyCode # None

\* C18: generateVerifyCode stores the code it returns in verifyCode, sets
\* verifyCodeExpiresAt to the current time plus 15 minutes and changes no
\* other field; generateResetCode does the same on resetCode and
\* resetCodeExpiresAt.  Checked under Spec.
C18_CodeFlowsAreSeparate ==
  [][/\ last'.op = "generateVerifyCode" =>
          /\ user'.verifyCode = Some(sentVerify'[1].code)
          /\ user'.verifyCodeExpiresAt = Some(now + 15 * 60 * 1000)
          /\ user'.resetCode = user.resetCode
          /\ user'.resetCodeExpiresAt = user.resetCodeExpiresAt
          /\ user'.failedLoginAttempts = user.failedLoginAttempts
          /\ user'.lockUntil = user.lockUntil
     /\ last'.op = "generateResetCode" =>
          /\ user'.resetCode = Some(sentReset'[1].code)
          /\ user'.resetCodeExpiresAt = Some(now + 15 * 60 * 1000)
          /\ user'.verifyCode = user.verifyCode
          /\ user'.verifyCodeExpiresAt = user.verifyCodeExpiresAt
          /\ user'.failedLoginAttempts = user.failedLoginAttempts
          /\ user'.lockUntil = user.lockUntil]_vars

\* C18's case: a verification code has just been issued for an account
\* that holds a different reset code, issued at another time, and a lock.
C18_Witness ==
  /\ last.op = "generateVerifyCode"
  /\ user.resetCode # None
  /\ user.resetCode # user.verifyCode
  /\ user.resetCodeExpiresAt # user.verifyCodeExpiresAt
  /\ user.lockUntil # None
  /\ user.failedLoginAttempts > 0

\* C19: every incrementLoginAttempts adds exactly 1 to failedLoginAttempts,
\* the call that sets the lock and the calls on a locked account included,
\* and the counter goes down only by a resetLock, to 0.  Checked under Spec.
C19_CounterOnlyGrowsByOne ==
  [][/\ last'.op = "incrementLoginAttempts" =>
          user'.failedLoginAttempts = user.failedLoginAttempts + 1
     /\ user'.failedLoginAttempts < user.failedLoginAttempts =>
          /\ last'.op = "resetLock"
          /\ user'.failedLoginAttempts = 0]_vars

\* C19's case: a failure has just been counted on an account whose counter
\* had reached the threshold, and the lock has been set anew.
C19_Witness ==
  /\ last.op = "incrementLoginAttempts"
  /\ user.failedLoginAttempts = 6
  /\ now = ClockStepMs
  /\ user.lockUntil = Some(now + 15 * 60 * 1000)

\* C20: from a fresh account, a step other than resetLock never clears
\* lockUntil or moves it to an earlier time, and an incrementLoginAttempts
\* on a counter of 5 or more sets lockUntil to the current time plus
\* 15 minutes, so that the account is locked then.  Checked under SpecFresh.
C20_LockNeverMovesBack ==
  [][/\ (last'.op # "resetLock" /\ user.lockUntil # None) =>
          /\ user'.lockUntil # None
          /\ user'.lockUntil[1] >= user.lockUntil[1]
     /\ (last'.op = "incrementLoginAttempts" /\ user.failedLoginAttempts >= 5) =>
          /\ user'.lockUntil = Some(now + 15 * 60 * 1000)
          /\ isAccountLocked(user', now') = "true"]_vars

\* C20's case: a failure counted after the lock of the fifth had expired
\* has locked the account again.
C20_Witness ==
  /\ last.op = "incrementLoginAttempts"
  /\ user.failedLoginAttempts = 6
  /\ now = 4 * ClockStepMs
  /\ user.lockUntil = Some(now + 15 * 60 * 1000)

(***************************************************************************)
(* Claims about lookups by email, checked under SpecLookup.                *)
(***************************************************************************)
\* C17: a findByEmail called with a value that is no string throws in the
\* call itself: the step issues no findOne (no query of that caller is
\* pending after it), and it changes no row and no other caller's call.
C17_NonStringThrowsBeforeQuery ==
  [][\A c \in Writers, v \in LookupInputs :
       (v.typeof # "string" /\ FindByEmailStart(c, v)) =>
         /\ reply'.op = "findByEmail" /\ reply'.result = "threw"
         /\ spc'[c] = "idle"
         /\ spc' = spc /\ args' = args /\ rec' = rec
         /\ rows' = rows /\ nextId' = nextId]_vars

\* C17's case: a findByEmail has just thrown while the table holds a row
\* and the other caller's query, issued for a string, is pending.
C17_Witness ==
  /\ reply.op = "findByEmail" /\ reply.result = "threw"
  /\ \E i \in RowIds : rows[i] # None
  /\ \E c \in Writers : spc[c] = "finding"
  /\ \E c \in Writers : spc[c] = "idle"

(***************************************************************************)
(* More claims about the users table, checked under SpecStore.             *)
(***************************************************************************)
\* C15: updateById loads, then saves, with nothing between the two that
\* keeps other callers out.  When a caller's save comes after the row has
\* been changed by another caller's save since this caller loaded it, the
\* save still writes the value it was given over the row's field, so that
\* what the other caller wrote to that field is lost; a field the save
\* was not given keeps what the row holds.
C15_LastSaveWins ==
  [][\A c \in Writers :
       (/\ spc[c] = "updating" /\ spc'[c] = "idle"
        /\ reply'.result = "record"
        /\ rows[rec[c].id] # None
        /\ rows[rec[c].id] # rec[c].row) =>
         LET loaded == rec[c].row[1]
             given == args[c]
             before == rows[rec[c].id][1]
             after == rows'[rec[c].id][1] IN
         /\ (given.passwordHash # None /\ given.passwordHash[1] # loaded.passwordHash) =>
              \E s \in Salts : after.passwordHash = BcryptHash(given.passwordHash[1], s)
         /\ (given.email # None /\ given.email[1] # loaded.email) =>
              after.email = given.email[1]
         /\ given.passwordHash = None => after.passwordHash = before.passwordHash
         /\ given.email = None => after.email = before.email]_vars

\* C15's case: two updateById calls loaded the same row, one has saved its
\* credential, and the other, which loaded the row before that save, is
\* about to save another credential over it.
C15_Witness ==
  \E c \in Writers :
    /\ spc[c] = "updating"
    /\ reply.op = "updateById" /\ reply.result = "record" /\ reply.id = rec[c].id
    /\ rows[rec[c].id] # None
    /\ rec[c].row[1].passwordHash = BcryptHash(<<"secret">>, "saltA")
    /\ rows[rec[c].id][1].passwordHash = BcryptHash(<<"hunter2">>, "saltA")
    /\ args[c].passwordHash = Some(<<"secret">>)

(***************************************************************************)
(* Claims about teardown, checked under SpecTeardown.                      *)
(***************************************************************************)
\* Whether a close call made for the handle h fails.
SomeCloseFails(h) ==
  \/ h.kind = "sequelize" /\ h.close \in {"rejects", "throws"}
  \/ h.kind = "noTransports"
  \/ \E i \in 1..Len(h.transports) :
       \/ h.transports[i].close \in {"error", "throws"}
       \/ h.transports[i].sequelize = "rejects"

====
